---- MODULE Spec2Model ----
(***************************************************************************)
(* A model of self_organising_systems/biomakerca/utils.py: the dotdict     *)
(* mapping, conditional_update, stringify_class and the save_dna/load_dna  *)
(* pair.  Python strings are sequences of one-character strings, so that   *)
(* suffix tests, joins and replacements are computed character by          *)
(* character.  Each group of operations has its own specification          *)
(* (SpecDot, SpecCU, SpecStr, SpecDna for one caller of save_dna and       *)
(* load_dna, SpecConc for two concurrent callers); the variables of the    *)
(* other groups stay at their initial values.                              *)
(***************************************************************************)
EXTENDS Integers, Sequences, FiniteSets, TLC

VARIABLES
  d, dprev, op,                           \* dotdict
  arr, arr0, idx, val, cond, cu_out, cu_pc, \* conditional_update
  inst, exclude_list, include_list, str_out, str_pc, \* stringify_class
  fs, pc, args, ident, ret, load,         \* save_dna, load_dna
  stamp, fault, untouched, order, overlap, writer \* history of the save_dna calls

dotVars == <<d, dprev, op>>
cuVars == <<arr, arr0, idx, val, cond, cu_out, cu_pc>>
strVars == <<inst, exclude_list, include_list, str_out, str_pc>>
dnaVars == <<fs, pc, args, ident, ret, load, stamp, fault, untouched, order, overlap, writer>>
vars == <<dotVars, cuVars, strVars, dnaVars>>

(***************************************************************************)
(* Helpers on sequences.                                                   *)
(***************************************************************************)
Range(s) == {s[i] : i \in 1..Len(s)}

\* sub in s
Contains(s, sub) ==
  \E i \in 0..(Len(s) - Len(sub)) : SubSeq(s, i + 1, i + Len(sub)) = sub

\* s.startswith(pre)
StartsWith(s, pre) == Len(pre) <= Len(s) /\ SubSeq(s, 1, Len(pre)) = pre

\* s.endswith(suf)
EndsWith(s, suf) ==
  Len(suf) <= Len(s) /\ SubSeq(s, Len(s) - Len(suf) + 1, Len(s)) = suf

(***************************************************************************)
(* dotdict (utils.py 23-27): a dict whose attribute hooks are the dict     *)
(* methods.  The mapping is a function whose domain is the set of keys     *)
(* present.                                                                *)
(***************************************************************************)
Keys == {"a", "b", "keys"}
Vals == {"v1", "v2"}
None == "None"
KeyError == "KeyError"
Ok == "ok"
BuiltinMethod == "<built-in method>"

\* The names ordinary attribute lookup finds on a dict instance (the methods
\* dotdict inherits from dict); "keys" stands for all of them.
ClassAttrs == {"keys"}

EmptyDict == [k \in {} |-> None]

\* dict.get(dd, k): the value, or the default None when k is absent.
dict_get(dd, k) == IF k \in DOMAIN dd THEN dd[k] ELSE None

\* dict.__getitem__(dd, k): the value, or KeyError raised.
dict_getitem(dd, k) == IF k \in DOMAIN dd THEN dd[k] ELSE KeyError

\* dict.__setitem__(dd, k, v)
dict_setitem(dd, k, v) ==
  [x \in DOMAIN dd \cup {k} |-> IF x = k THEN v ELSE dd[x]]

\* dict.__delitem__(dd, k): the mapping afterwards and what was raised.
dict_delitem(dd, k) ==
  IF k \in DOMAIN dd
    THEN [map |-> [x \in DOMAIN dd \ {k} |-> dd[x]], out |-> Ok]
    ELSE [map |-> dd, out |-> KeyError]

\* A faulty hook: attribute reads that raise on a missing key.
dotdict_getattr_raising(dd, k) == dict_getitem(dd, k)

\* dotdict.__getattr__ = dict.get
dotdict_getattr(dd, k) == dict_get(dd, k)

\* dotdict.__setattr__ = dict.__setitem__
dotdict_setattr(dd, k, v) == dict_setitem(dd, k, v)

\* dotdict.__delattr__ = dict.__delitem__
dotdict_delattr(dd, k) == dict_delitem(dd, k)

\* The expression d.k: Python calls __getattr__ only after ordinary lookup
\* (instance and class attributes) has failed.
ReadAttribute(dd, k) ==
  IF k \in ClassAttrs THEN BuiltinMethod ELSE dotdict_getattr(dd, k)

NoOp == [name |-> "none", k |-> "a", v |-> None, out |-> None]

DotInit == d = EmptyDict /\ dprev = EmptyDict /\ op = NoOp

\* d.k = v
SetAttr(k, v) ==
  /\ d' = dotdict_setattr(d, k, v)
  /\ dprev' = d
  /\ op' = [name |-> "setattr", k |-> k, v |-> v, out |-> Ok]

\* d[k] = v
SetItem(k, v) ==
  /\ d' = dict_setitem(d, k, v)
  /\ dprev' = d
  /\ op' = [name |-> "setitem", k |-> k, v |-> v, out |-> Ok]

\* del d.k
DelAttr(k) ==
  /\ d' = dotdict_delattr(d, k).map
  /\ dprev' = d
  /\ op' = [name |-> "delattr", k |-> k, v |-> None, out |-> dotdict_delattr(d, k).out]

\* del d[k]
DelItem(k) ==
  /\ d' = dict_delitem(d, k).map
  /\ dprev' = d
  /\ op' = [name |-> "delitem", k |-> k, v |-> None, out |-> dict_delitem(d, k).out]

\* d.k
GetAttr(k) ==
  /\ d' = d
  /\ dprev' = d
  /\ op' = [name |-> "getattr", k |-> k, v |-> None, out |-> ReadAttribute(d, k)]

\* d[k]
GetItem(k) ==
  /\ d' = d
  /\ dprev' = d
  /\ op' = [name |-> "getitem", k |-> k, v |-> None, out |-> dict_getitem(d, k)]

DotSetAttr == \E k \in Keys, v \in Vals : SetAttr(k, v) /\ UNCHANGED <<cuVars, strVars, dnaVars>>
DotSetItem == \E k \in Keys, v \in Vals : SetItem(k, v) /\ UNCHANGED <<cuVars, strVars, dnaVars>>
DotDelAttr == \E k \in Keys : DelAttr(k) /\ UNCHANGED <<cuVars, strVars, dnaVars>>
DotDelItem == \E k \in Keys : DelItem(k) /\ UNCHANGED <<cuVars, strVars, dnaVars>>
DotGetAttr == \E k \in Keys : GetAttr(k) /\ UNCHANGED <<cuVars, strVars, dnaVars>>
DotGetItem == \E k \in Keys : GetItem(k) /\ UNCHANGED <<cuVars, strVars, dnaVars>>

(***************************************************************************)
(* conditional_update (utils.py 37-39).  Array elements are floating-point *)
(* values: finite numbers, the two infinities and NaN, with the IEEE 754   *)
(* rules for the products and sums the function computes.  Positions are   *)
(* 1..Len(arr) here, for Python's 0..len-1.                                *)
(***************************************************************************)
MaxVal == 2
MaxLen == 2

Fin(n) == [k |-> "fin", n |-> n]
Inf == [k |-> "inf", n |-> 1]
NegInf == [k |-> "inf", n |-> -1]
NaN == [k |-> "nan", n |-> 0]

FloatVals == {Fin(n) : n \in 0..MaxVal} \cup {Inf, NegInf, NaN}

Sign(n) == IF n < 0 THEN -1 ELSE 1

\* x * y
FMul(x, y) ==
  IF x.k = "nan" \/ y.k = "nan" THEN NaN
  ELSE IF x.k = "fin" /\ y.k = "fin" THEN Fin(x.n * y.n)
  ELSE IF (x.k = "fin" /\ x.n = 0) \/ (y.k = "fin" /\ y.n = 0) THEN NaN
  ELSE [k |-> "inf", n |-> Sign(x.n) * Sign(y.n)]

\* x + y
FAdd(x, y) ==
  IF x.k = "nan" \/ y.k = "nan" THEN NaN
  ELSE IF x.k = "fin" /\ y.k = "fin" THEN Fin(x.n + y.n)
  ELSE IF x.k = "inf" /\ y.k = "inf" THEN (IF x.n = y.n THEN x ELSE NaN)
  ELSE IF x.k = "inf" THEN x ELSE y

\* x - y
FSub(x, y) == FAdd(x, FMul(Fin(-1), y))

\* arr.at[idx].set(v): a new array, arr with position idx replaced.
AtSet(a, i, v) == [a EXCEPT ![i] = v]

\* arr.at[idx].set((1 - cond) * arr[idx] + cond * val)
conditional_update(a, i, v, c) ==
  AtSet(a, i, FAdd(FMul(FSub(Fin(1), Fin(c)), a[i]), FMul(Fin(c), v)))

Arrays == UNION {[1..n -> FloatVals] : n \in 1..MaxLen}

CuInit ==
  /\ arr \in Arrays
  /\ arr0 = arr
  /\ idx \in 1..Len(arr)
  /\ val \in FloatVals
  /\ cond \in {0, 1}
  /\ cu_out = <<>>
  /\ cu_pc = "ready"

\* The call conditional_update(arr, idx, val, cond).
CuCall ==
  /\ cu_pc = "ready"
  /\ cu_out' = conditional_update(arr, idx, val, cond)
  /\ cu_pc' = "done"
  /\ UNCHANGED <<arr, arr0, idx, val, cond>>
  /\ UNCHANGED <<dotVars, strVars, dnaVars>>

(***************************************************************************)
(* stringify_class (utils.py 42-60).  An instance is its type name and the *)
(* sequence of its attributes in insertion order.  An attribute value is   *)
(* its string form and whether it is callable.                             *)
(***************************************************************************)
MaxAttrs == 2

NL == "\n"

TypeNames == {<<"T">>, <<"A", "b">>}
AttrNames == {<<"a">>, <<"b">>, <<"n", NL>>}
AttrValues ==
  { [str |-> <<"1">>, callable |-> FALSE],
    [str |-> <<"x", NL, "y">>, callable |-> FALSE],
    [str |-> <<"f", "n">>, callable |-> TRUE] }

\* One element of vars(instance).items(): a (name, value) tuple.  The tuple
\* itself is an object that is not callable.
ItemTuple(name, value) == [name |-> name, value |-> value, callable |-> FALSE]

\* The built-in callable(obj).
callable(obj) == obj.callable

\* Truthiness of a list argument that may be None: None and [] are falsy.
Truthy(lst) == lst.given /\ lst.names # {}

NoList == [given |-> FALSE, names |-> {}]
List(names) == [given |-> TRUE, names |-> names]

RECURSIVE Join(_, _)
\* sep.join(parts)
Join(sep, parts) ==
  IF parts = <<>> THEN <<>>
  ELSE IF Len(parts) = 1 THEN parts[1]
  ELSE parts[1] \o sep \o Join(sep, Tail(parts))

\* A faulty replacement: the text is left as it is.
ReplaceNothing(s, old, new) == s

RECURSIVE Replace(_, _, _)
\* s.replace(old, new) for a one-character old
Replace(s, old, new) ==
  IF s = <<>> THEN <<>>
  ELSE (IF Head(s) = old THEN new ELSE <<Head(s)>>) \o Replace(Tail(s), old, new)

\* The filter of the generator expression (lines 57-59).
Kept(item, excl, incl) ==
  /\ ~callable(item)
  /\ \/ (~Truthy(incl) /\ item.name \notin excl)
     \/ (Truthy(incl) /\ item.name \in incl.names)

\* str(item[0]) + ": " + str(item[1]).replace("\n", ", ")
Entry(item) ==
  item.name \o <<":", " ">> \o Replace(item.value.str, NL, <<",", " ">>)

\* type(instance).__name__ + ": {" + ", ".join(entries) + "}"
Render(type_name, items) ==
  type_name \o <<":", " ", "{">>
    \o Join(<<",", " ">>, [i \in 1..Len(items) |-> Entry(items[i])])
    \o <<"}">>

stringify_class(instance, excl, incl) ==
  LET keep(item) == Kept(item, excl, incl)
  IN  Render(instance.type, SelectSeq(instance.items, keep))

\* The attribute sequences of at most MaxAttrs attributes with distinct names.
ItemSeqs ==
  UNION { { s \in [1..n -> {ItemTuple(nm, v) : nm \in AttrNames, v \in AttrValues}] :
              \A i, j \in 1..n : i # j => s[i].name # s[j].name } : n \in 0..MaxAttrs }

StrInit ==
  /\ inst \in {[type |-> t, items |-> s] : t \in TypeNames, s \in ItemSeqs}
  /\ exclude_list \in SUBSET AttrNames
  /\ include_list \in {NoList} \cup {List(ns) : ns \in SUBSET AttrNames}
  /\ str_out = <<>>
  /\ str_pc = "ready"

\* The call stringify_class(inst, exclude_list, include_list).
StrCall ==
  /\ str_pc = "ready"
  /\ str_out' = stringify_class(inst, exclude_list, include_list)
  /\ str_pc' = "done"
  /\ UNCHANGED <<inst, exclude_list, include_list>>
  /\ UNCHANGED <<dotVars, cuVars, dnaVars>>

StrIdle ==
  /\ inst = [type |-> <<"T">>, items |-> <<>>]
  /\ exclude_list = {} /\ include_list = NoList
  /\ str_out = <<>> /\ str_pc = "idle"

(***************************************************************************)
(* save_dna and load_dna (utils.py 62-135).  The file system maps each     *)
(* path that exists to the content of its file, a sequence of cells        *)
(* (numbers for the .npy container, characters for the .txt sidecar).  A   *)
(* call of save_dna is a process that goes through its four file           *)
(* operations one at a time, so that two calls interleave as two threads   *)
(* or processes do.  The clock, the I/O faults and the arguments are       *)
(* chosen by the environment.                                              *)
(***************************************************************************)
MaxTick == 1
MaxPartial == 2

Min(a, b) == IF a < b THEN a ELSE b

Procs == {1, 2}

Digits == <<"0", "1", "2", "3", "4", "5", "6", "7", "8", "9">>

RECURSIVE Str(_)
\* str(n) of a non-negative integer
Str(n) == IF n < 10 THEN <<Digits[n + 1]>> ELSE Str(n \div 10) \o <<Digits[(n % 10) + 1]>>

\* The values time.time_ns() may return; the wall clock may return the same
\* value twice and may step back.
Times == 9..(9 + MaxTick)

\* Optional arguments: <<>> is None, <<v>> is the value v.
Absent == <<>>
TruthyOpt(x) == x # Absent /\ x[1] # 0

Dnas ==
  { [shape |-> <<1>>, data |-> <<7>>],
    [shape |-> <<2>>, data |-> <<5, 6>>],
    [shape |-> <<1, 2>>, data |-> <<5, 6>>] }

NoArray == [shape |-> <<>>, data |-> <<>>]

RECURSIVE Product(_)
Product(s) == IF s = <<>> THEN 1 ELSE Head(s) * Product(Tail(s))

\* A faulty writer: the header carries only the number of elements.
EncodeFlat(a) == <<1, Len(a.data)>> \o a.data

\* jp.save(f, dna, allow_pickle=False): the .npy container is a header that
\* carries the shape, followed by the elements in row-major order.
Encode(a) == <<Len(a.shape)>> \o a.shape \o a.data

\* jp.load(f, allow_pickle=False): reads the header, then exactly as many
\* elements as the shape asks for; fails on a truncated file.
Decode(c) ==
  IF Len(c) < 1 \/ Len(c) < 1 + c[1] THEN [ok |-> FALSE, array |-> NoArray]
  ELSE LET nd == c[1]
           shape == SubSeq(c, 2, 1 + nd)
           n == Product(shape)
       IN  IF Len(c) < 1 + nd + n THEN [ok |-> FALSE, array |-> NoArray]
           ELSE [ok |-> TRUE,
                 array |-> [shape |-> shape, data |-> SubSeq(c, 2 + nd, 1 + nd + n)]]

NpySuffix == <<".", "n", "p", "y">>
TxtSuffix == <<".", "t", "x", "t">>

\* "_".join([configuration_name, str(time.time_ns())])
Identifier(name, t) == name \o <<"_">> \o Str(t)

\* out_dir + identifier
OutFilePath(a, id) == a.out_dir \o id

\* A faulty sidecar: the environment sizes are written whenever they are
\* given, zero included.
LinesIfGiven(a, id) ==
  << <<"d", "n", "a", ":", " ">> \o id, a.config, a.agent_logic, a.mutator >>
  \o (IF a.env_h # Absent
        THEN << <<"e", "n", "v", "_", "h", ":", " ">> \o Str(a.env_h[1]) >> ELSE <<>>)
  \o (IF a.env_w # Absent
        THEN << <<"e", "n", "v", "_", "w", ":", " ">> \o Str(a.env_w[1]) >> ELSE <<>>)
  \o << <<"a", "u", "t", "h", "o", "r", ":", " ">> \o a.author,
        <<"n", "o", "t", "e", "s", ":", " ">> \o a.notes >>

\* The lines of the sidecar (lines 101-108).
Lines(a, id) ==
  << <<"d", "n", "a", ":", " ">> \o id, a.config, a.agent_logic, a.mutator >>
  \o (IF TruthyOpt(a.env_h)
        THEN << <<"e", "n", "v", "_", "h", ":", " ">> \o Str(a.env_h[1]) >> ELSE <<>>)
  \o (IF TruthyOpt(a.env_w)
        THEN << <<"e", "n", "v", "_", "w", ":", " ">> \o Str(a.env_w[1]) >> ELSE <<>>)
  \o << <<"a", "u", "t", "h", "o", "r", ":", " ">> \o a.author,
        <<"n", "o", "t", "e", "s", ":", " ">> \o a.notes >>

\* "\n".join(lines)
Text(a, id) == Join(<<NL>>, Lines(a, id))

EmptyFs == [x \in {} |-> <<>>]

\* A faulty open: exclusive creation, which fails when the file exists.
OpenExclusive(files, path) ==
  [files |-> [x \in DOMAIN files \cup {path} |-> IF x = path /\ x \notin DOMAIN files THEN <<>> ELSE files[x]],
   ok |-> path \notin DOMAIN files]

\* open(path, "w") / open(path, "wb"): creates the file or truncates it.
OpenForWrite(files, path) ==
  [files |-> [x \in DOMAIN files \cup {path} |-> IF x = path THEN <<>> ELSE files[x]],
   ok |-> TRUE]

\* The data of a file object opened at offset 0 reaching the file: it
\* replaces the first Len(data) cells; what another writer has put beyond
\* them since the open stays.
WriteAt0(files, path, data) ==
  [files EXCEPT ![path] = data \o SubSeq(@, Len(data) + 1, Len(@))]

\* A faulty control flow: a failed .npy write that is swallowed.
NextPcSwallow(stage, ok) ==
  CASE stage = "npy_open"  -> IF ok THEN "npy_write" ELSE "txt_open"
    [] stage = "npy_write" -> "txt_open"
    [] stage = "txt_open"  -> IF ok THEN "txt_write" ELSE "raised_txt"
    [] stage = "txt_write" -> IF ok THEN "done" ELSE "raised_txt"

\* The order of the statements of save_dna: an exception leaves the function.
NextPc(stage, ok) ==
  CASE stage = "npy_open"  -> IF ok THEN "npy_write" ELSE "raised_npy"
    [] stage = "npy_write" -> IF ok THEN "txt_open" ELSE "raised_npy"
    [] stage = "txt_open"  -> IF ok THEN "txt_write" ELSE "raised_txt"
    [] stage = "txt_write" -> IF ok THEN "done" ELSE "raised_txt"

NpyPath(p) == OutFilePath(args[p], ident[p]) \o NpySuffix
TxtPath(p) == OutFilePath(args[p], ident[p]) \o TxtSuffix

Active(p) == pc[p] \in {"npy_open", "npy_write", "txt_open", "txt_write"}
Finished(p) == pc[p] \in {"done", "raised_npy", "raised_txt"}
\* p has opened its .npy file
Opened(p) == pc[p] \notin {"idle", "npy_open"}

NoArgs ==
  [dna |-> NoArray, configuration_name |-> <<>>, config |-> <<>>,
   agent_logic |-> <<>>, mutator |-> <<>>, env_h |-> Absent, env_w |-> Absent,
   author |-> <<>>, notes |-> <<>>, out_dir |-> <<>>]

NoLoad ==
  [status |-> "none", file |-> <<>>, flag |-> FALSE, name |-> <<>>,
   reads |-> {}, out |-> NoArray, of |-> 0]

DnaInit ==
  /\ fs = EmptyFs
  /\ pc = [p \in Procs |-> "idle"]
  /\ args = [p \in Procs |-> NoArgs]
  /\ ident = [p \in Procs |-> <<>>]
  /\ ret = [p \in Procs |-> <<>>]
  /\ load = NoLoad
  /\ fault = [p \in Procs |-> FALSE]
  /\ untouched = [p \in Procs |-> FALSE]
  /\ order = <<>>
  /\ overlap = FALSE
  /\ stamp = [p \in Procs |-> 0]
  /\ writer = [x \in {} |-> 0]

\* The record of which call wrote each file last.
Written(w, path, p) == [x \in DOMAIN w \cup {path} |-> IF x = path THEN p ELSE w[x]]

\* Another call touches the .npy file of q after q has opened it.
Touch(p, q) == q # p /\ Opened(q) /\ NpyPath(q) = NpyPath(p)

\* save_dna is called (line 94): the arguments are bound and the clock read.
SaveCall(p, a, t) ==
  /\ pc[p] = "idle"
  /\ args' = [args EXCEPT ![p] = a]
  /\ ident' = [ident EXCEPT ![p] = Identifier(a.configuration_name, t)]
  /\ pc' = [pc EXCEPT ![p] = "npy_open"]
  /\ order' = Append(order, p)
  /\ overlap' = (overlap \/ \E q \in Procs \ {p} : Active(q))
  /\ stamp' = [stamp EXCEPT ![p] = t]
  /\ UNCHANGED <<fs, ret, load, fault, untouched, writer>>

\* open(out_file_path + ".npy", "wb") (line 97)
NpyOpen(p) ==
  /\ pc[p] = "npy_open"
  /\ LET r == OpenForWrite(fs, NpyPath(p))
     IN  /\ fs' = r.files
         /\ pc' = [pc EXCEPT ![p] = NextPc("npy_open", r.ok)]
  /\ untouched' = [q \in Procs |-> IF q = p THEN TRUE ELSE untouched[q] /\ ~Touch(p, q)]
  /\ UNCHANGED <<args, ident, ret, load, stamp, fault, order, overlap, writer>>

\* jp.save(f, dna, allow_pickle=False) and the end of the with block (line 98)
NpySave(p) ==
  /\ pc[p] = "npy_write"
  /\ fs' = WriteAt0(fs, NpyPath(p), Encode(args[p].dna))
  /\ pc' = [pc EXCEPT ![p] = NextPc("npy_write", TRUE)]
  /\ untouched' = [q \in Procs |-> IF q = p THEN untouched[q] ELSE untouched[q] /\ ~Touch(p, q)]
  /\ writer' = Written(writer, NpyPath(p), p)
  /\ UNCHANGED <<args, ident, ret, load, stamp, fault, order, overlap>>

\* open(out_file_path + ".txt", "w") (line 110)
TxtOpen(p) ==
  /\ pc[p] = "txt_open"
  /\ LET r == OpenForWrite(fs, TxtPath(p))
     IN  /\ fs' = r.files
         /\ pc' = [pc EXCEPT ![p] = NextPc("txt_open", r.ok)]
  /\ UNCHANGED <<args, ident, ret, load, stamp, fault, untouched, order, overlap, writer>>

\* f.write("\n".join(lines)), the end of the with block and the return
\* (lines 111-113)
TxtWrite(p) ==
  /\ pc[p] = "txt_write"
  /\ fs' = WriteAt0(fs, TxtPath(p), Text(args[p], ident[p]))
  /\ pc' = [pc EXCEPT ![p] = NextPc("txt_write", TRUE)]
  /\ ret' = [ret EXCEPT ![p] = OutFilePath(args[p], ident[p])]
  /\ writer' = Written(writer, TxtPath(p), p)
  /\ UNCHANGED <<args, ident, load, stamp, fault, untouched, order, overlap>>

\* The open p is about to do fails (missing directory, permission denied):
\* the OSError propagates out of save_dna and the file is not touched.
OpenFault(p) ==
  /\ pc[p] \in {"npy_open", "txt_open"}
  /\ pc' = [pc EXCEPT ![p] = NextPc(pc[p], FALSE)]
  /\ fault' = [fault EXCEPT ![p] = TRUE]
  /\ UNCHANGED <<fs, args, ident, ret, load, stamp, untouched, order, overlap, writer>>

\* The write p is about to do fails (disk full): a proper prefix of the data,
\* of at most MaxPartial cells here, may have reached the file, and the
\* OSError propagates.
WriteFault(p) ==
  /\ pc[p] \in {"npy_write", "txt_write"}
  /\ LET npy == pc[p] = "npy_write"
         path == IF npy THEN NpyPath(p) ELSE TxtPath(p)
         data == IF npy THEN Encode(args[p].dna) ELSE Text(args[p], ident[p])
     IN  /\ \E n \in 0..Min(Len(data) - 1, MaxPartial) : fs' = WriteAt0(fs, path, SubSeq(data, 1, n))
         /\ untouched' = [q \in Procs |-> untouched[q] /\ ~(npy /\ Touch(p, q))]
         /\ writer' = Written(writer, path, p)
  /\ pc' = [pc EXCEPT ![p] = NextPc(pc[p], FALSE)]
  /\ fault' = [fault EXCEPT ![p] = TRUE]
  /\ UNCHANGED <<args, ident, ret, load, stamp, order, overlap>>

\* One character of str.lower(), on the letters the file names use.
Lower(c) ==
  CASE c = "N" -> "n" [] c = "P" -> "p" [] c = "Y" -> "y" [] c = "X" -> "x"
    [] OTHER -> c

\* file.lower()
LowerStr(s) == [i \in 1..Len(s) |-> Lower(s[i])]

\* A faulty suffix test: the letter case is not folded.
HasNpySuffixExact(file) == EndsWith(file, NpySuffix)

\* file.lower().endswith(".npy")
HasNpySuffix(file) == EndsWith(LowerStr(file), NpySuffix)

\* Lines 126-127: the suffix is added when it is missing.
ResolveName(file) == IF ~HasNpySuffix(file) THEN file \o NpySuffix ELSE file

\* '/'.join(("biomakerca", "dnalib", file))
ResourcePath(name) ==
  Join(<<"/">>, << <<"b", "i", "o", "m", "a", "k", "e", "r", "c", "a">>,
                   <<"d", "n", "a", "l", "i", "b">>, name >>)

\* The resources bundled with the package: one dna, dnalib/x.npy.
PkgResources ==
  [x \in {ResourcePath(<<"x">> \o NpySuffix)} |-> Encode([shape |-> <<1>>, data |-> <<8>>])]

\* Reading one array from a store: a missing file or resource and a file
\* that is no valid container both raise.
ReadArray(store, path) ==
  IF path \notin DOMAIN store THEN [ok |-> FALSE, array |-> NoArray]
  ELSE Decode(store[path])

\* load_dna(file, load_from_this_package) (lines 126-135): the resolved
\* name, the stores read and the result.
load_dna(files, file, flag) ==
  LET name == ResolveName(file)
      r == IF flag THEN ReadArray(PkgResources, ResourcePath(name))
                   ELSE ReadArray(files, name)
  IN  [status |-> IF r.ok THEN "ok" ELSE "error",
       file |-> file, flag |-> flag, name |-> name,
       reads |-> IF flag THEN {[store |-> "package", path |-> ResourcePath(name)]}
                         ELSE {[store |-> "filesystem", path |-> name]},
       out |-> r.array]

\* load_dna is called on a file reference.
LoadRef(file, flag) ==
  /\ load' = load_dna(fs, file, flag) @@ [of |-> 0]
  /\ UNCHANGED <<fs, pc, args, ident, ret, stamp, fault, untouched, order, overlap, writer>>

\* load_dna is called on the path a finished save_dna call has returned.
LoadReturned(p, flag) ==
  /\ pc[p] = "done"
  /\ load' = load_dna(fs, ret[p], flag) @@ [of |-> p]
  /\ UNCHANGED <<fs, pc, args, ident, ret, stamp, fault, untouched, order, overlap, writer>>

\* The arguments of the single caller: every combination of the optional
\* environment sizes, two output directories.
FullArgs ==
  { [dna |-> a, configuration_name |-> <<"c">>, config |-> <<"C">>,
     agent_logic |-> <<"L">>, mutator |-> <<"M">>, env_h |-> h, env_w |-> w,
     author |-> <<"m", "e">>, notes |-> n, out_dir |-> o] :
    a \in Dnas, h \in {Absent, <<0>>, <<3>>}, w \in {Absent, <<0>>, <<12>>},
    n \in {<<>>, <<"h", "i">>}, o \in {<<".", "/">>, <<"o">>} }

\* The arguments of two concurrent callers.
SmallArgs ==
  { [dna |-> a, configuration_name |-> c, config |-> <<"C">>,
     agent_logic |-> <<"L">>, mutator |-> <<"M">>, env_h |-> h, env_w |-> Absent,
     author |-> <<"m", "e">>, notes |-> <<>>, out_dir |-> <<".", "/">>] :
    a \in Dnas, c \in {<<"c">>, <<"k">>}, h \in {Absent, <<3>>} }

\* File references given to load_dna.
Refs ==
  { <<"x">>, <<"x", ".", "n", "p", "y">>, <<"x", ".", "N", "p", "Y">>,
    <<"X", ".", "N", "P", "Y">>, <<"n", "p", "y">>, <<"q", ".", "n", "p">> }

NoOther == UNCHANGED <<dotVars, cuVars, strVars>>

DnaSaveCall == \E a \in FullArgs, t \in Times : SaveCall(1, a, t) /\ NoOther
DnaNpyOpen == NpyOpen(1) /\ NoOther
DnaNpySave == NpySave(1) /\ NoOther
DnaTxtOpen == TxtOpen(1) /\ NoOther
DnaTxtWrite == TxtWrite(1) /\ NoOther
DnaOpenFault == OpenFault(1) /\ NoOther
DnaWriteFault == WriteFault(1) /\ NoOther
DnaLoadRef == \E f \in Refs, flag \in BOOLEAN : LoadRef(f, flag) /\ NoOther
DnaLoadReturned == \E flag \in BOOLEAN : LoadReturned(1, flag) /\ NoOther

ConcSaveCall == \E p \in Procs, a \in SmallArgs, t \in Times : SaveCall(p, a, t) /\ NoOther
ConcNpyOpen == \E p \in Procs : NpyOpen(p) /\ NoOther
ConcNpySave == \E p \in Procs : NpySave(p) /\ NoOther
ConcTxtOpen == \E p \in Procs : TxtOpen(p) /\ NoOther
ConcTxtWrite == \E p \in Procs : TxtWrite(p) /\ NoOther
ConcOpenFault == \E p \in Procs : OpenFault(p) /\ NoOther
ConcWriteFault == \E p \in Procs : WriteFault(p) /\ NoOther
ConcLoadReturned == \E p \in Procs, flag \in BOOLEAN : LoadReturned(p, flag) /\ NoOther

DnaIdle == DnaInit

CuIdle ==
  /\ arr = <<>> /\ arr0 = <<>> /\ idx = 1 /\ val = Fin(0) /\ cond = 0
  /\ cu_out = <<>> /\ cu_pc = "idle"

DotIdle == d = EmptyDict /\ dprev = EmptyDict /\ op = NoOp

InitDot == DotInit /\ CuIdle /\ StrIdle /\ DnaIdle

NextDot ==
  \/ DotSetAttr
  \/ DotSetItem
  \/ DotDelAttr
  \/ DotDelItem
  \/ DotGetAttr
  \/ DotGetItem

SpecDot == InitDot /\ [][NextDot]_vars

InitCU == CuInit /\ DotIdle /\ StrIdle /\ DnaIdle

NextCU == CuCall

SpecCU == InitCU /\ [][NextCU]_vars

InitStr == StrInit /\ DotIdle /\ CuIdle /\ DnaIdle

NextStr == StrCall

SpecStr == InitStr /\ [][NextStr]_vars

InitDna == DnaInit /\ DotIdle /\ CuIdle /\ StrIdle

NextDna ==
  \/ DnaSaveCall
  \/ DnaNpyOpen
  \/ DnaNpySave
  \/ DnaTxtOpen
  \/ DnaTxtWrite
  \/ DnaOpenFault
  \/ DnaWriteFault
  \/ DnaLoadRef
  \/ DnaLoadReturned

SpecDna == InitDna /\ [][NextDna]_vars

NextConc ==
  \/ ConcSaveCall
  \/ ConcNpyOpen
  \/ ConcNpySave
  \/ ConcTxtOpen
  \/ ConcTxtWrite
  \/ ConcOpenFault
  \/ ConcWriteFault
  \/ ConcLoadReturned

SpecConc == InitDna /\ [][NextConc]_vars

(***************************************************************************)
(* Properties of dotdict.                                                  *)
(***************************************************************************)
Without(dd, k) == [x \in DOMAIN dd \ {k} |-> dd[x]]

\* What a set (by either syntax) and a delete (by either syntax) leave behind.
SetEffect ==
  op.name \in {"setattr", "setitem"} =>
    /\ op.k \in DOMAIN d /\ d[op.k] = op.v
    /\ \A x \in Keys \ {op.k} :
         (x \in DOMAIN d <=> x \in DOMAIN dprev) /\ (x \in DOMAIN d => d[x] = dprev[x])

DeleteEffect ==
  op.name \in {"delattr", "delitem"} =>
    IF op.k \in DOMAIN dprev
      THEN d = Without(dprev, op.k) /\ op.out = Ok
      ELSE d = dprev /\ op.out = KeyError

ItemReadEffect ==
  op.name = "getitem" =>
    op.out = (IF op.k \in DOMAIN d THEN d[op.k] ELSE KeyError)

\* C6 as stated: for every string key, a value set by either syntax is read
\* back by the other, attribute and item deletion have the same effect
\* (KeyError when the key is absent), an absent key reads as None by
\* attribute and raises KeyError by item.
C6_AllKeys ==
  /\ SetEffect
  /\ op.name \in {"setattr", "setitem"} =>
       dict_getitem(d, op.k) = op.v /\ ReadAttribute(d, op.k) = op.v
  /\ DeleteEffect
  /\ op.name = "getattr" =>
       op.out = (IF op.k \in DOMAIN d THEN d[op.k] ELSE None)
  /\ ItemReadEffect

\* C6 amended: the same, with attribute reads restricted to keys that are
\* not names of attributes of dict; for such a name (here "keys") the
\* attribute read returns the dict attribute whatever the mapping holds,
\* while attribute sets and deletes still act on the mapping.
C6_NonClassKeys ==
  /\ SetEffect
  /\ op.name \in {"setattr", "setitem"} =>
       /\ dict_getitem(d, op.k) = op.v
       /\ op.k \notin ClassAttrs => ReadAttribute(d, op.k) = op.v
  /\ DeleteEffect
  /\ (op.name = "getattr" /\ op.k \notin ClassAttrs) =>
       op.out = (IF op.k \in DOMAIN d THEN d[op.k] ELSE None)
  /\ (op.name = "getattr" /\ op.k \in ClassAttrs) => op.out = BuiltinMethod
  /\ ItemReadEffect

\* An absent key read by attribute after sets and a delete by attribute.
C6_Witness ==
  /\ op.name = "getattr" /\ op.k = "a" /\ op.out = None
  /\ "a" \notin DOMAIN d
  /\ "b" \in DOMAIN d /\ d["b"] = "v2"

(***************************************************************************)
(* Properties of conditional_update.                                       *)
(***************************************************************************)
\* C7 as stated: with cond = 1 the result is arr with position idx replaced
\* by val, with cond = 0 the result equals arr, and arr is left as it was.
C7_UpdateOrKeep ==
  cu_pc = "done" =>
    /\ Len(cu_out) = Len(arr0)
    /\ cond = 1 => \A i \in 1..Len(arr0) : cu_out[i] = IF i = idx THEN val ELSE arr0[i]
    /\ cond = 0 => cu_out = arr0
    /\ arr = arr0

(***************************************************************************)
(* Properties of stringify_class.                                          *)
(***************************************************************************)
\* C2 as stated: the output has no entry for an attribute whose value is
\* callable, whatever the lists are.
C2_NoCallableEntry ==
  str_pc = "done" =>
    \A i \in 1..Len(inst.items) :
      inst.items[i].value.callable => ~Contains(str_out, Entry(inst.items[i]))

\* C3 as stated: with an inclusion list given (the empty list included) the
\* fields are exactly the attributes named in it, without one they are
\* exactly the attributes not named in the exclusion list, in insertion order.
C3_ListsSelect ==
  str_pc = "done" =>
    LET wanted(item) ==
          IF include_list.given THEN item.name \in include_list.names
                                ELSE item.name \notin exclude_list
    IN  str_out = Render(inst.type, SelectSeq(inst.items, wanted))

NamesClean ==
  /\ NL \notin Range(inst.type)
  /\ \A i \in 1..Len(inst.items) : NL \notin Range(inst.items[i].name)

Framed ==
  /\ StartsWith(str_out, inst.type \o <<":", " ", "{">>)
  /\ EndsWith(str_out, <<"}">>)

\* C4 as stated: the output starts with the type name and ": {", ends with
\* "}" and holds no newline, whatever the attribute names and values are.
C4_NeverNewline ==
  str_pc = "done" => Framed /\ NL \notin Range(str_out)

\* C4 amended: the output starts with the type name and ": {" and ends with
\* "}"; it holds no newline when neither the type name nor an attribute name
\* holds one (newlines of the values are replaced by ", ").
C4_NewlineOnlyFromNames ==
  str_pc = "done" => Framed /\ (NamesClean => NL \notin Range(str_out))

\* A multi-line value rendered on one line.
C4_Witness ==
  /\ str_pc = "done" /\ NamesClean
  /\ Contains(str_out, <<"a", ":", " ", "x", ",", " ", "y">>)
  /\ Len(inst.items) = 2

(***************************************************************************)
(* Properties of save_dna and load_dna.                                    *)
(***************************************************************************)
EnvLine(label, x, written) == IF written THEN << label \o Str(x[1]) >> ELSE <<>>

\* The sidecar made of the given first line and environment lines.
Sidecar(a, first, with_h, with_w) ==
  Join(<<NL>>,
       << first, a.config, a.agent_logic, a.mutator >>
       \o EnvLine(<<"e", "n", "v", "_", "h", ":", " ">>, a.env_h, with_h)
       \o EnvLine(<<"e", "n", "v", "_", "w", ":", " ">>, a.env_w, with_w)
       \o << <<"a", "u", "t", "h", "o", "r", ":", " ">> \o a.author,
             <<"n", "o", "t", "e", "s", ":", " ">> \o a.notes >>)

NameAndStamp(p) == args[p].configuration_name \o <<"_">> \o Str(stamp[p])

\* C5 as stated: the sidecar is the identifier, str(config),
\* str(agent_logic), str(mutator), an env_h line iff env_h was provided, an
\* env_w line iff env_w was provided, the author line and the notes line,
\* one per line, and the identifier is the one of the returned path.
C5_SidecarAsStated ==
  pc[1] = "done" =>
    /\ fs[ret[1] \o TxtSuffix] =
         Sidecar(args[1], NameAndStamp(1), args[1].env_h # Absent, args[1].env_w # Absent)
    /\ ret[1] = args[1].out_dir \o NameAndStamp(1)

\* C5 amended: the first line is "dna: " followed by the identifier, and the
\* env_h (env_w) line is there iff env_h (env_w) is truthy: provided and not
\* zero.
C5_SidecarTruthy ==
  pc[1] = "done" =>
    /\ fs[ret[1] \o TxtSuffix] =
         Sidecar(args[1], <<"d", "n", "a", ":", " ">> \o NameAndStamp(1),
                 args[1].env_h # Absent /\ args[1].env_h # <<0>>,
                 args[1].env_w # Absent /\ args[1].env_w # <<0>>)
    /\ ret[1] = args[1].out_dir \o NameAndStamp(1)

\* A sidecar with an env_w line and no env_h line, env_h being 0.
C5_Witness ==
  /\ pc[1] = "done"
  /\ args[1].env_h = <<0>> /\ args[1].env_w = <<12>>
  /\ Contains(fs[TxtPath(1)], <<"M", NL, "e", "n", "v", "_", "w", ":", " ", "1", "2", NL, "a">>)

\* C8: the .npy file is complete before the .txt file exists; when the .txt
\* write fails after the .npy write, no path is returned and the .npy file
\* stays; when the .npy write fails, there is no .txt file and no path.
C8_NoRollback ==
  /\ TxtPath(1) \in DOMAIN fs =>
       NpyPath(1) \in DOMAIN fs /\ fs[NpyPath(1)] = Encode(args[1].dna)
  /\ pc[1] = "raised_txt" =>
       /\ ret[1] = <<>>
       /\ NpyPath(1) \in DOMAIN fs /\ fs[NpyPath(1)] = Encode(args[1].dna)
  /\ pc[1] = "raised_npy" => ret[1] = <<>> /\ TxtPath(1) \notin DOMAIN fs
  /\ ret[1] # <<>> <=> pc[1] = "done"

\* The .txt write failed half way: both files exist, no path was returned.
C8_Witness ==
  /\ pc[1] = "raised_txt" /\ fault[1]
  /\ TxtPath(1) \in DOMAIN fs /\ Len(fs[TxtPath(1)]) = 2
  /\ NpyPath(1) \in DOMAIN fs

IsNpyCI(f) ==
  /\ Len(f) >= 4
  /\ f[Len(f) - 3] = "."
  /\ f[Len(f) - 2] \in {"n", "N"}
  /\ f[Len(f) - 1] \in {"p", "P"}
  /\ f[Len(f)] \in {"y", "Y"}

DnaLibPrefix ==
  <<"b", "i", "o", "m", "a", "k", "e", "r", "c", "a", "/", "d", "n", "a", "l", "i", "b", "/">>

\* C10: ".npy" is appended iff the reference does not end in ".npy" in any
\* letter case, so the resolved name always ends in it; the array is read
\* from biomakerca/dnalib/<name> of the package when the flag is true, from
\* the file <name> otherwise, never from both.
C10_Resolve ==
  load.status # "none" =>
    /\ load.name = (IF IsNpyCI(load.file) THEN load.file ELSE load.file \o NpySuffix)
    /\ IsNpyCI(load.name)
    /\ load.reads = (IF load.flag
                       THEN {[store |-> "package", path |-> DnaLibPrefix \o load.name]}
                       ELSE {[store |-> "filesystem", path |-> load.name]})
    /\ load.flag =>
         (load.status = "ok" <=> DnaLibPrefix \o load.name \in DOMAIN PkgResources)
    /\ (~load.flag /\ load.status = "ok") => load.name \in DOMAIN fs

\* A reference with the suffix in mixed case, read from the package as it is.
C10_Witness ==
  /\ load.file = <<"x", ".", "N", "p", "Y">> /\ load.flag
  /\ load.name = load.file /\ load.status = "error"
  /\ pc[1] = "done"

SameTarget ==
  /\ args[1].configuration_name = args[2].configuration_name
  /\ args[1].out_dir = args[2].out_dir

OwnFiles(p) ==
  /\ NpyPath(p) \in DOMAIN fs /\ fs[NpyPath(p)] = Encode(args[p].dna)
  /\ TxtPath(p) \in DOMAIN fs /\ fs[TxtPath(p)] = Text(args[p], ident[p])

Paths(p) == {NpyPath(p), TxtPath(p)}

NoCollisionError == \A p \in Procs : pc[p] \in {"raised_npy", "raised_txt"} => fault[p]

\* C9 as stated: with different timestamps the two calls write to different
\* paths and each call's files stay its own; with the same timestamp they
\* write to the same paths and each file holds what the call that wrote it
\* last has written; no caller gets an error from the collision.
C9_LaterReplaces ==
  (Finished(1) /\ Finished(2) /\ SameTarget) =>
    /\ stamp[1] # stamp[2] =>
         /\ Paths(1) \cap Paths(2) = {}
         /\ \A p \in Procs : pc[p] = "done" => OwnFiles(p)
    /\ stamp[1] = stamp[2] =>
         /\ Paths(1) = Paths(2)
         /\ (pc[1] = "done" /\ pc[2] = "done") =>
              /\ fs[NpyPath(1)] = Encode(args[writer[NpyPath(1)]].dna)
              /\ fs[TxtPath(1)] = Text(args[writer[TxtPath(1)]], ident[writer[TxtPath(1)]])
    /\ NoCollisionError

\* C9 amended: the same, the replacement being claimed only for calls that
\* run one after the other: the files then hold exactly what the later call
\* wrote.  (When the calls overlap the files may hold a mixture.)
C9_LaterReplacesSequential ==
  (Finished(1) /\ Finished(2) /\ SameTarget) =>
    /\ stamp[1] # stamp[2] =>
         /\ Paths(1) \cap Paths(2) = {}
         /\ \A p \in Procs : pc[p] = "done" => OwnFiles(p)
    /\ stamp[1] = stamp[2] =>
         /\ Paths(1) = Paths(2)
         /\ (~overlap /\ pc[order[2]] = "done") =>
              /\ OwnFiles(order[2])
              /\ writer[NpyPath(1)] = order[2] /\ writer[TxtPath(1)] = order[2]
    /\ NoCollisionError

\* Two calls, one after the other, same name and timestamp, different
\* arrays and sidecars: the files are those of the second.
C9_Witness ==
  /\ pc[1] = "done" /\ pc[2] = "done" /\ SameTarget /\ stamp[1] = stamp[2]
  /\ ~overlap /\ order = <<2, 1>>
  /\ args[1].dna # args[2].dna /\ args[1].env_h # args[2].env_h
  /\ OwnFiles(1) /\ ~fault[1] /\ ~fault[2]

====
